---- MODULE Spec2Model ----
(***************************************************************************)
(* Model of the relationship engine (models/user_model.py, UserModel) and  *)
(* of the per-connection delivery loop (routes/ws_route.py,                *)
(* WebsocketNotifier) of asyncio_chat.                                     *)
(*                                                                         *)
(* The store (users_db) holds one document per user.  The four relation    *)
(* fields are arrays: $push appends a value (duplicates are possible),     *)
(* $pull removes every occurrence, $unset removes the field (a missing     *)
(* field loads as the dataclass default, the empty list).  An array is     *)
(* modelled by the number of occurrences of each id in it.                 *)
(***************************************************************************)
EXTENDS Integers, Sequences, FiniteSets, TLC

\* ---------------------------------------------------------------- bounds
\* largest number of occurrences of one id in one array that is explored
MaxCount == 2

\* ---------------------------------------------------------------- users
Humans == {"U1", "U2"}
Bots == {"B1"}
Users == Humans \cup Bots
\* an ObjectId that matches no document of the collection
NoUser == "none"
Ids == Users \cup {NoUser}

Fields == {"blocked", "friends", "pendings_outgoing", "pendings_incoming"}

OpNames == {"send_friend_request", "response_friend_request",
            "cancel_friend_request", "delete_friend", "block_user",
            "unblock_user"}

\* the collections explored: two humans, or a human and a bot of theirs
Populations == {{"U1", "U2"}, {"U1", "B1"}}

VARIABLES
    registered, \* the ids that have a document in users_db
    docs,       \* docs[u][f][v]: occurrences of id v in array f of u's document
    deleted,    \* deleted[u]: the document of u has the field "deleted"
    last,       \* the last call: method, self, argument, confirm, outcome
    \* --- one user's websocket connections (routes/ws_route.py)
    pc,              \* pc[c]: where the handler / delivery loop of c stands
    activated,       \* activated[c]: WebsocketNotifier.activated
    message_pool,    \* message_pool[c]: WebsocketNotifier.message_pool
    message_pool_length, \* message_pool_length[c]: pops left in this cycle
    message,         \* message[c]: the popped message being sent, <<>> if none
    wire,            \* wire[c]: the frames sent on the websocket of c
    enqueued,        \* enqueued[c]: every message ever put into message_pool[c]
    connected,       \* user.connected: the owner's list of connections
    cycle_snapshot,  \* cycle_snapshot[c]: message_pool[c] when the running
                     \* pass of the while loop read its length
    cycle_base,      \* cycle_base[c]: messages transmitted before that pass
    \* --- bot documents (UserModel.registrate_bot)
    live_bots,       \* live_bots[p]: bot documents with parent p, not deleted
    deleted_bots,    \* bot documents that delete_user has marked deleted
    \* --- calls that have validated and not yet written
    pending,         \* pending[s]: the call session s is in the middle of
    begun            \* calls that have passed their tests in SpecRace

relvars == <<registered, docs, deleted, last>>
cyclevars == <<cycle_snapshot, cycle_base>>
wsvars == <<pc, activated, message_pool, message_pool_length, message, wire,
            enqueued, connected, cyclevars>>
botvars == <<live_bots, deleted_bots>>
racevars == <<pending, begun>>
vars == <<relvars, wsvars, botvars, racevars>>

\* the "bot" field of a document; neither registration nor delete_user
\* changes it afterwards
bot == [u \in Users |-> u \in Bots]

EmptyArray == [v \in Ids |-> 0]
EmptyDoc == [f \in Fields |-> EmptyArray]

\* ------------------------------------------------------ store primitives
UpdateOne(id, operator, field, value) ==
    [id |-> id, operator |-> operator, field |-> field, value |-> value]

\* one UpdateOne applied to the collection: a filter that matches no
\* document updates nothing
ApplyUpdate(d, u) ==
    IF u.id \notin registered THEN d
    ELSE IF u.operator = "$push"
         THEN [d EXCEPT ![u.id][u.field][u.value] = @ + 1]
         ELSE [d EXCEPT ![u.id][u.field][u.value] = 0]

RECURSIVE bulk_write(_, _)
bulk_write(d, operations) ==
    IF operations = <<>> THEN d
    ELSE bulk_write(ApplyUpdate(d, Head(operations)), Tail(operations))

\* "value in self.<field>" on a freshly loaded UserModel
In(value, self, field) == docs[self][field][value] > 0

valid_user_id(user_id) ==
    /\ user_id \in registered
    /\ bot[user_id] = FALSE
    /\ ~deleted[user_id]

check_blocked(check_user_id, is_blocked) ==
    /\ check_user_id \in registered
    /\ docs[check_user_id]["blocked"][is_blocked] > 0

\* ------------------------------------------------------------- outcomes
Raise(exc) == [err |-> exc, operations |-> <<>>]
Write(operations) == [err |-> "ok", operations |-> operations]

\* ------------------------------------------------------------- handlers
\* send_friend_request that pushes its own edge before the blocked tests
send_friend_request_writes_first(self, to_user_id) ==
    IF bot[self] THEN Raise("UnavailableForBots")
    ELSE IF ~valid_user_id(to_user_id) THEN Raise("InvalidUser")
    ELSE IF \/ check_blocked(to_user_id, self)
            \/ In(to_user_id, self, "blocked")
            \/ In(to_user_id, self, "pendings_incoming")
            \/ In(to_user_id, self, "pendings_outgoing")
            \/ In(to_user_id, self, "friends")
         THEN [err |-> "InvalidUser",
               operations |->
                   <<UpdateOne(self, "$push", "pendings_outgoing", to_user_id)>>]
    ELSE Write(<<UpdateOne(self, "$push", "pendings_outgoing", to_user_id),
                 UpdateOne(to_user_id, "$push", "pendings_incoming", self)>>)

send_friend_request(self, to_user_id) ==
    IF bot[self] THEN Raise("UnavailableForBots")
    ELSE IF ~valid_user_id(to_user_id) THEN Raise("InvalidUser")
    ELSE IF check_blocked(to_user_id, self) THEN Raise("InvalidUser")
    ELSE IF In(to_user_id, self, "blocked") THEN Raise("InvalidUser")
    ELSE IF \/ In(to_user_id, self, "pendings_incoming")
            \/ In(to_user_id, self, "pendings_outgoing")
            \/ In(to_user_id, self, "friends")
         THEN Raise("InvalidUser")
    ELSE Write(<<UpdateOne(self, "$push", "pendings_outgoing", to_user_id),
                 UpdateOne(to_user_id, "$push", "pendings_incoming", self)>>)

\* response_friend_request without the $pull on the requester's document
response_friend_request_keeps_outgoing(self, user_id, confirm) ==
    IF bot[self] THEN Raise("UnavailableForBots")
    ELSE IF ~In(user_id, self, "pendings_incoming") THEN Raise("UserNotInGroup")
    ELSE Write(
        <<UpdateOne(self, "$pull", "pendings_incoming", user_id)>>
        \o (IF confirm
            THEN <<UpdateOne(self, "$push", "friends", user_id),
                   UpdateOne(user_id, "$push", "friends", self)>>
            ELSE <<>>))

response_friend_request(self, user_id, confirm) ==
    IF bot[self] THEN Raise("UnavailableForBots")
    ELSE IF ~In(user_id, self, "pendings_incoming") THEN Raise("UserNotInGroup")
    ELSE Write(
        <<UpdateOne(user_id, "$pull", "pendings_outgoing", self),
          UpdateOne(self, "$pull", "pendings_incoming", user_id)>>
        \o (IF confirm
            THEN <<UpdateOne(self, "$push", "friends", user_id),
                   UpdateOne(user_id, "$push", "friends", self)>>
            ELSE <<>>))

\* cancel_friend_request with the $pull on the own document only
cancel_friend_request_one_sided(self, user_id) ==
    IF bot[self] THEN Raise("UnavailableForBots")
    ELSE IF ~In(user_id, self, "pendings_outgoing") THEN Raise("UserNotInGroup")
    ELSE Write(<<UpdateOne(self, "$pull", "pendings_outgoing", user_id)>>)

cancel_friend_request(self, user_id) ==
    IF bot[self] THEN Raise("UnavailableForBots")
    ELSE IF ~In(user_id, self, "pendings_outgoing") THEN Raise("UserNotInGroup")
    ELSE Write(<<UpdateOne(self, "$pull", "pendings_outgoing", user_id),
                 UpdateOne(user_id, "$pull", "pendings_incoming", self)>>)

\* delete_friend without the "user_id not in self.friends" test
delete_friend_unchecked(self, user_id) ==
    IF bot[self] THEN Raise("UnavailableForBots")
    ELSE Write(<<UpdateOne(self, "$pull", "friends", user_id),
                 UpdateOne(user_id, "$pull", "friends", self)>>)

\* delete_friend with the $pull on the own document only
delete_friend_one_sided(self, user_id) ==
    IF bot[self] THEN Raise("UnavailableForBots")
    ELSE IF ~In(user_id, self, "friends") THEN Raise("UserNotInGroup")
    ELSE Write(<<UpdateOne(self, "$pull", "friends", user_id)>>)

delete_friend(self, user_id) ==
    IF bot[self] THEN Raise("UnavailableForBots")
    ELSE IF ~In(user_id, self, "friends") THEN Raise("UserNotInGroup")
    ELSE Write(<<UpdateOne(self, "$pull", "friends", user_id),
                 UpdateOne(user_id, "$pull", "friends", self)>>)

\* block_user without the "blocking in self.blocked" test
block_user_unchecked(self, blocking) ==
    IF ~valid_user_id(blocking)
    THEN Raise("UserNotInGroup")
    ELSE Write(
        <<UpdateOne(self, "$push", "blocked", blocking)>>
        \o (IF In(blocking, self, "pendings_incoming")
            THEN <<UpdateOne(self, "$pull", "pendings_outgoing", blocking),
                   UpdateOne(blocking, "$pull", "pendings_incoming", self)>>
            ELSE <<>>)
        \o (IF In(blocking, self, "pendings_outgoing")
            THEN <<UpdateOne(blocking, "$pull", "pendings_outgoing", self),
                   UpdateOne(self, "$pull", "pendings_incoming", blocking)>>
            ELSE <<>>)
        \o (IF In(blocking, self, "friends")
            THEN <<UpdateOne(self, "$pull", "friends", blocking),
                   UpdateOne(blocking, "$pull", "friends", self)>>
            ELSE <<>>))

block_user(self, blocking) ==
    IF ~valid_user_id(blocking) \/ In(blocking, self, "blocked")
    THEN Raise("UserNotInGroup")
    ELSE Write(
        <<UpdateOne(self, "$push", "blocked", blocking)>>
        \o (IF In(blocking, self, "pendings_incoming")
            THEN <<UpdateOne(self, "$pull", "pendings_outgoing", blocking),
                   UpdateOne(blocking, "$pull", "pendings_incoming", self)>>
            ELSE <<>>)
        \o (IF In(blocking, self, "pendings_outgoing")
            THEN <<UpdateOne(blocking, "$pull", "pendings_outgoing", self),
                   UpdateOne(self, "$pull", "pendings_incoming", blocking)>>
            ELSE <<>>)
        \o (IF In(blocking, self, "friends")
            THEN <<UpdateOne(self, "$pull", "friends", blocking),
                   UpdateOne(blocking, "$pull", "friends", self)>>
            ELSE <<>>))

unblock_user(self, unblocking) ==
    IF ~In(unblocking, self, "blocked") THEN Raise("UserNotInGroup")
    ELSE Write(<<UpdateOne(self, "$pull", "blocked", unblocking)>>)

\* ------------------------------------------------- bot registration
\* "if has_number_of_bots > 20"
BotLimit == 20
\* deletions of bots explored
MaxDeletedBots == 2

Sessions == {"s1", "s2"}
Idle == [stage |-> "idle"]

InitPending ==
    /\ pending = [s \in Sessions |-> Idle]
    /\ begun = 0

InitBots ==
    /\ live_bots = [p \in Humans |-> 0]
    /\ deleted_bots = 0

\* users_db.count_documents({parent: parent, deleted: {$exists: False}})
count_documents(parent) == live_bots[parent]

\* registrate_bot: the outcome and the number of documents inserted
registrate_bot(parent) ==
    LET has_number_of_bots == count_documents(parent) IN
    IF has_number_of_bots > BotLimit
    THEN [err |-> "ValueError", inserted |-> 0]
    ELSE [err |-> "ok", inserted |-> 1]

RegistrateBot ==
    \E parent \in Humans :
        LET outcome == registrate_bot(parent) IN
        /\ live_bots' = [live_bots EXCEPT ![parent] = @ + outcome.inserted]
        /\ last' = [method |-> "registrate_bot", self |-> NoUser,
                    arg |-> parent, confirm |-> FALSE, err |-> outcome.err]
        /\ UNCHANGED <<registered, docs, deleted, deleted_bots>>
        /\ UNCHANGED <<wsvars, racevars>>

\* delete_user of a bot of parent: "parent" is unset and "deleted" is set,
\* the document no longer counts
DeleteBot ==
    \E parent \in Humans :
        /\ live_bots[parent] > 0
        /\ deleted_bots < MaxDeletedBots
        /\ live_bots' = [live_bots EXCEPT ![parent] = @ - 1]
        /\ deleted_bots' = deleted_bots + 1
        /\ last' = [method |-> "delete_user", self |-> NoUser,
                    arg |-> parent, confirm |-> FALSE, err |-> "ok"]
        /\ UNCHANGED <<registered, docs, deleted>>
        /\ UNCHANGED <<wsvars, racevars>>

NextBots ==
    \/ RegistrateBot
    \/ DeleteBot

\* ------------------------------------------- websocket delivery (ws_route)
\* bounds of the exploration
MaxEnqueued == 3

Conns == {"c1", "c2"}
Messages == {1, 2}

\* str(message)
str(m) == ToString(m)

\* copy_current_websocket_context(new_ws_user): a new function object
\* wrapping the notifier; it is this object that add_websocket hands to
\* user.add_ws and to ensure_future
copy_current_websocket_context(c) == <<"wrapper", c>>

\* list.pop(): the last element instead of the first
pop_last(pool) ==
    [message |-> pool[Len(pool)], rest |-> SubSeq(pool, 1, Len(pool) - 1)]

\* list.pop(0): the element removed and the list that remains
pop0(pool) == [message |-> Head(pool), rest |-> Tail(pool)]

\* list.index(x): the first position holding x, 0 for ValueError
index(list, x) ==
    IF \E i \in 1..Len(list) : list[i] = x
    THEN CHOOSE i \in 1..Len(list) :
            list[i] = x /\ \A j \in 1..(i - 1) : list[j] # x
    ELSE 0

\* user.add_ws(ws): the connection is appended to user.connected
add_ws(list, ws) == Append(list, ws)

\* user.kill_websockets(i): the entry at position i (counted from 1 here) is
\* removed
kill_websockets(list, i) ==
    [j \in 1..(Len(list) - 1) |-> IF j < i THEN list[j] ELSE list[j + 1]]

InitWs ==
    /\ pc = [c \in Conns |-> "closed"]
    /\ activated = [c \in Conns |-> FALSE]
    /\ message_pool = [c \in Conns |-> <<>>]
    /\ message_pool_length = [c \in Conns |-> 0]
    /\ message = [c \in Conns |-> <<>>]
    /\ wire = [c \in Conns |-> <<>>]
    /\ enqueued = [c \in Conns |-> <<>>]
    /\ connected = <<>>
    /\ cycle_snapshot = [c \in Conns |-> <<>>]
    /\ cycle_base = [c \in Conns |-> 0]

\* add_websocket up to the end of "await websocket.send('Authorized!')":
\* the notifier exists (__init__) and the greeting is on the wire
AddWebsocket(c) ==
    /\ UNCHANGED <<relvars, botvars, racevars>>
    /\ pc[c] = "closed"
    /\ pc' = [pc EXCEPT ![c] = "authorized"]
    /\ wire' = [wire EXCEPT ![c] = Append(@, "Authorized!")]
    /\ UNCHANGED <<activated, message_pool, message_pool_length, message,
                   enqueued, connected, cyclevars>>

\* "await user.add_ws(new_ws_user)" and "ensure_future(new_ws_user())"
RegisterWebsocket(c) ==
    /\ UNCHANGED <<relvars, botvars, racevars>>
    /\ pc[c] = "authorized"
    /\ connected' = add_ws(connected, copy_current_websocket_context(c))
    /\ pc' = [pc EXCEPT ![c] = "scheduled"]
    /\ UNCHANGED <<activated, message_pool, message_pool_length, message,
                   wire, enqueued, cyclevars>>

\* the for loop from its n-th remaining iteration up to the next await:
\* either a message is popped and "await websocket.send" is reached, or
\* the loop is over and "await sleep(0.1)" is reached
ForLoop_until_empty(c, n) ==
    IF Len(message_pool[c]) > 0
    THEN LET p == pop0(message_pool[c]) IN
         /\ message_pool' = [message_pool EXCEPT ![c] = p.rest]
         /\ message' = [message EXCEPT ![c] = <<p.message>>]
         /\ message_pool_length' = [message_pool_length EXCEPT ![c] = 0]
         /\ pc' = [pc EXCEPT ![c] = "send"]
    ELSE /\ message' = [message EXCEPT ![c] = <<>>]
         /\ message_pool_length' = [message_pool_length EXCEPT ![c] = 0]
         /\ pc' = [pc EXCEPT ![c] = "sleep"]
         /\ UNCHANGED message_pool

ForLoop(c, n) ==
    IF n > 0
    THEN LET p == pop0(message_pool[c]) IN
         /\ message_pool' = [message_pool EXCEPT ![c] = p.rest]
         /\ message' = [message EXCEPT ![c] = <<p.message>>]
         /\ message_pool_length' = [message_pool_length EXCEPT ![c] = n - 1]
         /\ pc' = [pc EXCEPT ![c] = "send"]
    ELSE /\ message' = [message EXCEPT ![c] = <<>>]
         /\ message_pool_length' = [message_pool_length EXCEPT ![c] = 0]
         /\ pc' = [pc EXCEPT ![c] = "sleep"]
         /\ UNCHANGED message_pool

\* "while self.activated:" followed by the snapshot of the queue length
\* and the for loop; past the while when activated is false
Cycle(c, act) ==
    IF act
    THEN /\ cycle_snapshot' = [cycle_snapshot EXCEPT ![c] = message_pool[c]]
         /\ cycle_base' = [cycle_base EXCEPT ![c] = Len(wire[c]) - 1]
         /\ ForLoop(c, Len(message_pool[c]))
    ELSE /\ pc' = [pc EXCEPT ![c] = "exit"]
         /\ UNCHANGED <<message_pool, message, message_pool_length,
                        cyclevars>>

\* the task created by ensure_future starts to run __call__
LoopStart(c) ==
    /\ UNCHANGED <<relvars, botvars, racevars>>
    /\ pc[c] = "scheduled"
    /\ activated' = [activated EXCEPT ![c] = TRUE]
    /\ Cycle(c, TRUE)
    /\ UNCHANGED <<wire, enqueued, connected>>

\* "await websocket.send(str(message))" returns: the frame is on the wire
SendDone(c) ==
    /\ UNCHANGED <<relvars, botvars, racevars>>
    /\ pc[c] = "send"
    /\ wire' = [wire EXCEPT ![c] = Append(@, str(message[c][1]))]
    /\ ForLoop(c, message_pool_length[c])
    /\ UNCHANGED <<activated, enqueued, connected, cyclevars>>

\* "await sleep(0.1)" returns
SleepDone(c) ==
    /\ UNCHANGED <<relvars, botvars, racevars>>
    /\ pc[c] = "sleep"
    /\ Cycle(c, activated[c])
    /\ UNCHANGED <<activated, wire, enqueued, connected>>

\* CancelledError raised at the await the loop is suspended in ("except
\* CancelledError: break").  A send that is cancelled may or may not have
\* put its frame on the wire.
Cancel(c) ==
    /\ UNCHANGED <<relvars, botvars, racevars>>
    /\ pc[c] \in {"send", "sleep"}
    /\ \/ wire' = wire
       \/ pc[c] = "send" /\ wire' = [wire EXCEPT ![c] = Append(@, str(message[c][1]))]
    /\ message' = [message EXCEPT ![c] = <<>>]
    /\ pc' = [pc EXCEPT ![c] = "exit"]
    /\ UNCHANGED <<activated, message_pool, message_pool_length, enqueued,
                   connected, cyclevars>>

\* websocket.send raises anything else: no handler in __call__, the task
\* ends with the exception
SendFails(c) ==
    /\ UNCHANGED <<relvars, botvars, racevars>>
    /\ pc[c] = "send"
    /\ message' = [message EXCEPT ![c] = <<>>]
    /\ pc' = [pc EXCEPT ![c] = "failed"]
    /\ UNCHANGED <<activated, message_pool, message_pool_length, wire,
                   enqueued, connected, cyclevars>>

\* after the loop: current_ws_index = self.user.connected.index(self);
\* self.user.kill_websockets(current_ws_index).  self is the notifier.
Deregister(c) ==
    /\ UNCHANGED <<relvars, botvars, racevars>>
    /\ pc[c] = "exit"
    /\ LET current_ws_index == index(connected, c) IN
       IF current_ws_index = 0
       THEN /\ pc' = [pc EXCEPT ![c] = "failed"]
            /\ UNCHANGED connected
       ELSE /\ connected' = kill_websockets(connected, current_ws_index)
            /\ pc' = [pc EXCEPT ![c] = "terminated"]
    /\ UNCHANGED <<activated, message_pool, message_pool_length, message,
                   wire, enqueued, cyclevars>>

\* the number of messages handed to the connections of S so far
RECURSIVE TotalEnqueued(_)
TotalEnqueued(S) ==
    IF S = {} THEN 0
    ELSE LET c == CHOOSE x \in S : TRUE
         IN  Len(enqueued[c]) + TotalEnqueued(S \ {c})

\* a notification is handed to a connection of the registry
Enqueue(c, m) ==
    /\ UNCHANGED <<relvars, botvars, racevars>>
    /\ \E i \in 1..Len(connected) : connected[i][2] = c
    /\ TotalEnqueued(Conns) < MaxEnqueued
    /\ message_pool' = [message_pool EXCEPT ![c] = Append(@, m)]
    /\ enqueued' = [enqueued EXCEPT ![c] = Append(@, m)]
    /\ UNCHANGED <<pc, activated, message_pool_length, message, wire,
                   connected, cyclevars>>

NextWs ==
    \/ \E c \in Conns : AddWebsocket(c)
    \/ \E c \in Conns : RegisterWebsocket(c)
    \/ \E c \in Conns : LoopStart(c)
    \/ \E c \in Conns : SendDone(c)
    \/ \E c \in Conns : SleepDone(c)
    \/ \E c \in Conns : Cancel(c)
    \/ \E c \in Conns : SendFails(c)
    \/ \E c \in Conns : Deregister(c)
    \/ \E c \in Conns, m \in Messages : Enqueue(c, m)

\* the collection is left as registration made it
InitDelivery ==
    /\ InitWs
    /\ InitBots
    /\ InitPending
    /\ registered = {"U1", "U2"}
    /\ docs = [u \in Users |-> EmptyDoc]
    /\ deleted = [u \in Users |-> FALSE]
    /\ last = [method |-> "registrate", self |-> NoUser, arg |-> NoUser,
               confirm |-> FALSE, err |-> "ok"]

SpecWs ==
    /\ InitDelivery
    /\ [][NextWs]_vars


InitRegistration ==
    /\ InitBots
    /\ InitWs
    /\ InitPending
    /\ registered = {"U1", "U2"}
    /\ docs = [u \in Users |-> EmptyDoc]
    /\ deleted = [u \in Users |-> FALSE]
    /\ last = [method |-> "registrate", self |-> NoUser, arg |-> NoUser,
               confirm |-> FALSE, err |-> "ok"]

SpecBots ==
    /\ InitRegistration
    /\ [][NextBots]_vars

\* -------------------------------------------------------------- actions
WithinBound(d) ==
    \A u \in Users, f \in Fields, v \in Ids : d[u][f][v] <= MaxCount

\* one call of a handler by a session whose UserModel was just loaded
\* (UserModel.authorize: cls(**user)), run to completion
Call(method, self, arg, confirm, outcome) ==
    LET new == bulk_write(docs, outcome.operations) IN
    /\ WithinBound(new)
    /\ docs' = new
    /\ last' = [method |-> method, self |-> self, arg |-> arg,
                confirm |-> confirm, err |-> outcome.err]
    /\ UNCHANGED <<registered, deleted>>
    /\ UNCHANGED <<wsvars, botvars, racevars>>

SendFriendRequest ==
    \E self \in registered, to_user_id \in Ids :
        Call("send_friend_request", self, to_user_id, FALSE,
             send_friend_request(self, to_user_id))

ResponseFriendRequest ==
    \E self \in registered, user_id \in Ids, confirm \in BOOLEAN :
        Call("response_friend_request", self, user_id, confirm,
             response_friend_request(self, user_id, confirm))

CancelFriendRequest ==
    \E self \in registered, user_id \in Ids :
        Call("cancel_friend_request", self, user_id, FALSE,
             cancel_friend_request(self, user_id))

DeleteFriend ==
    \E self \in registered, user_id \in Ids :
        Call("delete_friend", self, user_id, FALSE,
             delete_friend(self, user_id))

BlockUser ==
    \E self \in registered, blocking \in Ids :
        Call("block_user", self, blocking, FALSE, block_user(self, blocking))

UnblockUser ==
    \E self \in registered, unblocking \in Ids :
        Call("unblock_user", self, unblocking, FALSE,
             unblock_user(self, unblocking))

\* delete_user: $unset of the relation fields of the own document, then
\* $set deleted; no other document is touched
DeleteUser ==
    \E self \in registered :
        /\ docs' = [docs EXCEPT ![self] = EmptyDoc]
        /\ deleted' = [deleted EXCEPT ![self] = TRUE]
        /\ last' = [method |-> "delete_user", self |-> self, arg |-> NoUser,
                    confirm |-> FALSE, err |-> "ok"]
        /\ UNCHANGED registered
        /\ UNCHANGED <<wsvars, botvars, racevars>>

InitRel ==
    /\ registered \in Populations
    /\ docs = [u \in Users |-> EmptyDoc]
    /\ deleted = [u \in Users |-> FALSE]
    /\ last = [method |-> "registrate", self |-> NoUser, arg |-> NoUser,
               confirm |-> FALSE, err |-> "ok"]

\* ------------------------------------------- calls that overlap in time
\* Every handler awaits the store: between the tests of a call and its
\* bulk_write other calls run.  A call is taken in two steps, its tests (on
\* the UserModel the session has just loaded and on the store) and, when
\* they pass, its write; Spec above takes the two steps as one.

\* calls explored in one behaviour of SpecRace
MaxBegun == 3

\* the tests of a call by session s
Begin(s, method, self, arg, confirm, outcome) ==
    /\ pending[s] = Idle
    /\ IF outcome.err = "ok"
       THEN /\ begun < MaxBegun
            /\ begun' = begun + 1
            /\ pending' = [pending EXCEPT ![s] =
                    [stage |-> "validated", method |-> method, self |-> self,
                     arg |-> arg, confirm |-> confirm,
                     operations |-> outcome.operations]]
            /\ UNCHANGED last
       ELSE /\ last' = [method |-> method, self |-> self, arg |-> arg,
                        confirm |-> confirm, err |-> outcome.err]
            /\ UNCHANGED <<pending, begun>>
    /\ UNCHANGED <<registered, docs, deleted>>
    /\ UNCHANGED <<wsvars, botvars>>

BeginSendFriendRequest ==
    \E s \in Sessions, self \in registered, to_user_id \in Ids :
        Begin(s, "send_friend_request", self, to_user_id, FALSE,
              send_friend_request(self, to_user_id))

BeginResponseFriendRequest ==
    \E s \in Sessions, self \in registered, user_id \in Ids,
       confirm \in BOOLEAN :
        Begin(s, "response_friend_request", self, user_id, confirm,
              response_friend_request(self, user_id, confirm))

BeginCancelFriendRequest ==
    \E s \in Sessions, self \in registered, user_id \in Ids :
        Begin(s, "cancel_friend_request", self, user_id, FALSE,
              cancel_friend_request(self, user_id))

BeginDeleteFriend ==
    \E s \in Sessions, self \in registered, user_id \in Ids :
        Begin(s, "delete_friend", self, user_id, FALSE,
              delete_friend(self, user_id))

BeginBlockUser ==
    \E s \in Sessions, self \in registered, blocking \in Ids :
        Begin(s, "block_user", self, blocking, FALSE,
              block_user(self, blocking))

BeginUnblockUser ==
    \E s \in Sessions, self \in registered, unblocking \in Ids :
        Begin(s, "unblock_user", self, unblocking, FALSE,
              unblock_user(self, unblocking))

\* "await users_db.bulk_write(operations)" of the call of session s
BulkWrite ==
    \E s \in Sessions :
        /\ pending[s] # Idle
        /\ LET call == pending[s]
               new == bulk_write(docs, call.operations)
           IN  /\ WithinBound(new)
               /\ docs' = new
               /\ last' = [method |-> call.method, self |-> call.self,
                           arg |-> call.arg, confirm |-> call.confirm,
                           err |-> "ok"]
        /\ pending' = [pending EXCEPT ![s] = Idle]
        /\ UNCHANGED <<registered, deleted, begun>>
        /\ UNCHANGED <<wsvars, botvars>>

NextRace ==
    \/ BeginSendFriendRequest
    \/ BeginResponseFriendRequest
    \/ BeginCancelFriendRequest
    \/ BeginDeleteFriend
    \/ BeginBlockUser
    \/ BeginUnblockUser
    \/ BulkWrite

InitRace ==
    /\ InitRegistration

SpecRace ==
    /\ InitRace
    /\ [][NextRace]_vars

Init == InitRel /\ InitWs /\ InitBots /\ InitPending

Next ==
    \/ SendFriendRequest
    \/ ResponseFriendRequest
    \/ CancelFriendRequest
    \/ DeleteFriend
    \/ BlockUser
    \/ UnblockUser
    \/ DeleteUser

Spec == Init /\ [][Next]_vars

\* ------------------------------------------------- relationship claims
InD(d, value, self, field) == self \in Users /\ d[self][field][value] > 0

Live(u) == u \in registered /\ ~deleted[u]

\* the step is a call of method by self with argument arg
IsCall(l, method) == l.method = method

\* C1: after block(A,B) succeeds, B is in none of A.friends,
\* A.pendings_outgoing, A.pendings_incoming.
C1_BlockIsExclusive ==
    (last.method = "block_user" /\ last.err = "ok") =>
        /\ ~In(last.arg, last.self, "friends")
        /\ ~In(last.arg, last.self, "pendings_outgoing")
        /\ ~In(last.arg, last.self, "pendings_incoming")

\* C2: in every reachable state, for all users A and B, B is a member of
\* at most one of A.blocked, A.friends, A.pendings_outgoing,
\* A.pendings_incoming.
C2_AtMostOneRelation ==
    \A a \in registered, b \in Ids :
        Cardinality({f \in Fields : In(b, a, f)}) <= 1

\* C3 (as stated): for all users A and B, B in A.friends iff A in
\* B.friends, and B in A.pendings_outgoing iff A in B.pendings_incoming,
\* after any sequence of relationship operations and delete_user.
C3_MatchedPairs ==
    \A a \in registered, b \in registered :
        /\ In(b, a, "friends") <=> In(a, b, "friends")
        /\ In(b, a, "pendings_outgoing") <=> In(a, b, "pendings_incoming")

\* C3 (amended): the same for all users A and B neither of which has been
\* deleted; delete_user clears the deleted user's own arrays only.
C3_MatchedPairsOfLiveUsers ==
    \A a \in registered, b \in registered :
        (Live(a) /\ Live(b)) =>
            /\ In(b, a, "friends") <=> In(a, b, "friends")
            /\ In(b, a, "pendings_outgoing") <=> In(a, b, "pendings_incoming")

\* a friendship between two live users dissolved by delete_friend, and
\* no edge of it left on either side
C3_Witness ==
    /\ last.method = "delete_friend" /\ last.err = "ok"
    /\ last.self # last.arg
    /\ Live(last.self) /\ Live(last.arg)
    /\ ~In(last.arg, last.self, "friends")
    /\ ~In(last.self, last.arg, "friends")

\* C4: after send_request(A,B) succeeds, B is in A.pendings_outgoing and A
\* is in B.pendings_incoming, and no other relation edge exists between A
\* and B in either direction (A = B included).
C4_SendCreatesTheOnlyEdge ==
    (last.method = "send_friend_request" /\ last.err = "ok") =>
        LET a == last.self
            b == last.arg
        IN  /\ In(b, a, "pendings_outgoing")
            /\ In(a, b, "pendings_incoming")
            /\ \A f \in Fields \ {"pendings_outgoing"} : ~In(b, a, f)
            /\ \A f \in Fields \ {"pendings_incoming"} : ~In(a, b, f)

\* C5: with a pending request from A to B, respond_request(B, A, TRUE)
\* leaves B in A.friends and A in B.friends and both pending edges removed;
\* respond_request(B, A, FALSE) removes both pending edges and changes no
\* friends array.
C5_RespondStep ==
    LET b == last'.self
        a == last'.arg
    IN  (/\ last'.method = "response_friend_request"
         /\ a \in registered
         /\ In(b, a, "pendings_outgoing")
         /\ In(a, b, "pendings_incoming"))
        =>
        /\ last'.err = "ok"
        /\ ~InD(docs', b, a, "pendings_outgoing")
        /\ ~InD(docs', a, b, "pendings_incoming")
        /\ last'.confirm =>
              /\ InD(docs', b, a, "friends")
              /\ InD(docs', a, b, "friends")
        /\ ~last'.confirm =>
              \A u \in Users : docs'[u]["friends"] = docs[u]["friends"]

C5_RespondResolvesPending == [][C5_RespondStep]_vars

\* a request between two different users that was confirmed
C5_Witness ==
    /\ last.method = "response_friend_request" /\ last.err = "ok"
    /\ last.confirm
    /\ last.self # last.arg
    /\ In(last.arg, last.self, "friends")
    /\ In(last.self, last.arg, "friends")
    /\ ~In(last.self, last.arg, "pendings_outgoing")
    /\ ~In(last.arg, last.self, "pendings_incoming")

\* C6: when block(actor, target) succeeds, target is in actor.blocked, and
\* every pending pair (either direction) and friendship pair that existed
\* between the two is removed on both sides.
C6_BlockStep ==
    LET a == last'.self
        t == last'.arg
    IN  (last'.method = "block_user" /\ last'.err = "ok")
        =>
        /\ InD(docs', t, a, "blocked")
        /\ (In(t, a, "pendings_outgoing") \/ In(a, t, "pendings_incoming")) =>
              /\ ~InD(docs', t, a, "pendings_outgoing")
              /\ ~InD(docs', a, t, "pendings_incoming")
        /\ (In(a, t, "pendings_outgoing") \/ In(t, a, "pendings_incoming")) =>
              /\ ~InD(docs', a, t, "pendings_outgoing")
              /\ ~InD(docs', t, a, "pendings_incoming")
        /\ (In(t, a, "friends") \/ In(a, t, "friends")) =>
              /\ ~InD(docs', t, a, "friends")
              /\ ~InD(docs', a, t, "friends")

C6_BlockClearsPriorRelation == [][C6_BlockStep]_vars

\* C7: a bot calling send_request, respond_request, cancel_request,
\* remove_friend, block or unblock fails with UnavailableForBots and no
\* stored relation array changes.
C7_BotStep ==
    (last'.method \in OpNames /\ last'.self \in Bots) =>
        /\ last'.err = "UnavailableForBots"
        /\ docs' = docs

C7_BotsAlwaysRefused == [][C7_BotStep]_vars

\* C8: block(A,B) directly after a successful block(A,B) fails with
\* UserNotInGroup and changes no document; A.blocked holds B exactly once.
C8_SecondBlockStep ==
    (/\ last.method = "block_user" /\ last.err = "ok"
     /\ last'.method = "block_user"
     /\ last'.self = last.self /\ last'.arg = last.arg)
    =>
    /\ last'.err = "UserNotInGroup"
    /\ docs' = docs
    /\ deleted' = deleted
    /\ docs'[last.self]["blocked"][last.arg] = 1

C8_SecondBlockFails == [][C8_SecondBlockStep]_vars

\* a refused block of a user who is blocked exactly once
C8_Witness ==
    /\ last.method = "block_user" /\ last.err = "UserNotInGroup"
    /\ last.arg \in Ids
    /\ docs[last.self]["blocked"][last.arg] = 1

\* C9: while either user of a pair has the other in blocked, send_request
\* between them (either direction) fails with InvalidUser and writes
\* nothing.
C9_SendStep ==
    LET a == last'.self
        b == last'.arg
    IN  (/\ last'.method = "send_friend_request"
         /\ b \in registered
         /\ (In(b, a, "blocked") \/ In(a, b, "blocked")))
        =>
        /\ last'.err = "InvalidUser"
        /\ docs' = docs

C9_BlockedPairCannotRequest == [][C9_SendStep]_vars

\* ------------------------------------------------------ delivery claims
\* the frames the delivery loop of c has sent (the wire less the greeting)
Transmitted(c) == IF wire[c] = <<>> THEN <<>> ELSE Tail(wire[c])

StrSeq(q) == [i \in 1..Len(q) |-> str(q[i])]

LoopRuns(c) == pc[c] \in {"send", "sleep"}

\* C10: on every connection the frames transmitted are, in order and with
\* no gap or repetition, the first messages enqueued; while the loop runs,
\* the messages not yet transmitted are the one being sent followed by the
\* queue, in enqueue order, so that what is enqueued before an idle interval
\* is what the next cycle sends first.
C10_Fifo ==
    \A c \in Conns :
        /\ Len(Transmitted(c)) <= Len(enqueued[c])
        /\ Transmitted(c) =
               SubSeq(StrSeq(enqueued[c]), 1, Len(Transmitted(c)))
        /\ LoopRuns(c) =>
               StrSeq(enqueued[c]) =
                   Transmitted(c) \o StrSeq(message[c]) \o StrSeq(message_pool[c])

C10_NextCycleStep ==
    \A c \in Conns :
        (pc[c] = "sleep" /\ pc'[c] = "send") =>
            message'[c] = <<Head(message_pool[c])>>

C10_DeliveryOrder == []C10_Fifo /\ [][C10_NextCycleStep]_vars

\* three messages, the first two different, enqueued on one connection and
\* all on the wire in enqueue order, the loop idle again
C10_Witness ==
    \E c \in Conns :
        /\ pc[c] = "sleep"
        /\ Len(enqueued[c]) = 3
        /\ enqueued[c][1] # enqueued[c][2]
        /\ Transmitted(c) = StrSeq(enqueued[c])

\* the registry holds the entry that add_websocket registered for c
InRegistry(list, c) ==
    \E i \in 1..Len(list) : list[i] = copy_current_websocket_context(c)

\* the loop of c has left its cycle
LeftCycle(c) == pc[c] \in {"exit", "terminated", "failed"}

\* C11: once cancellation has reached the running loop of a connection, the
\* loop transmits nothing more, and the step that follows the cycle
\* deregisters the connection: it ends Terminated and is in the registry no
\* longer.
C11_CancelStep ==
    \A c \in Conns :
        /\ LeftCycle(c) => wire'[c] = wire[c]
        /\ (pc[c] = "exit" /\ pc'[c] # "exit") =>
              /\ pc'[c] = "terminated"
              /\ ~InRegistry(connected', c)
              /\ Len(connected') = Len(connected) - 1

C11_CancelledLoopDeregisters == [][C11_CancelStep]_vars

\* C12: a send that raises anything but cancellation ends the loop with the
\* connection removed from the registry of its owner.
C12_SendFailureStep ==
    \A c \in Conns :
        (pc[c] = "send" /\ pc'[c] = "failed") => ~InRegistry(connected', c)

C12_SendFailureDeregisters == [][C12_SendFailureStep]_vars

\* C13: with several connections of one user, a loop that exits removes its
\* own entry from the registry and only that one; an entry leaves the
\* registry only when its own loop exits, and registration loses none.
C13_RegistryStep ==
    \A c \in Conns :
        /\ (pc[c] = "exit" /\ pc'[c] # "exit") =>
              /\ ~InRegistry(connected', c)
              /\ \A d \in Conns \ {c} :
                    InRegistry(connected', d) <=> InRegistry(connected, d)
        /\ (InRegistry(connected, c) /\ ~InRegistry(connected', c)) =>
              pc[c] = "exit"
        /\ (pc[c] = "authorized" /\ pc'[c] = "scheduled") =>
              /\ InRegistry(connected', c)
              /\ \A d \in Conns \ {c} :
                    InRegistry(connected', d) <=> InRegistry(connected, d)

C13_ExitRemovesOwnEntryOnly == [][C13_RegistryStep]_vars

\* ----------------------------------------------------- registration claims
\* C14: a parent never has more than 20 bots that are not deleted, and a
\* registrate_bot call made when the parent has 20 of them fails and inserts
\* nothing.
C14_Cap == \A p \in Humans : live_bots[p] <= 20

C14_RegistrateStep ==
    (last'.method = "registrate_bot" /\ live_bots[last'.arg] >= 20) =>
        /\ last'.err # "ok"
        /\ live_bots' = live_bots

C14_BotCap == []C14_Cap /\ [][C14_RegistrateStep]_vars

\* ------------------------------------------- relationship claims, continued
\* C15: once delete_user(A) has run, no later operation adds A's id to an
\* array of any user, nor any id to an array of A.
C15_AfterDeleteStep ==
    \A a \in registered :
        deleted[a] =>
            \A u \in registered, f \in Fields :
                /\ docs'[u][f][a] <= docs[u][f][a]
                /\ docs'[a][f][u] <= docs[a][f][u]

C15_DeletedUserIsExcluded == [][C15_AfterDeleteStep]_vars

\* no relation edge of any type between a and b, in either direction
NoEdge(d, a, b) ==
    \A f \in Fields :
        /\ d[a][f][b] = 0
        /\ b \in Users => d[b][f][a] = 0

\* d2 is d1 but for array f of a at b and array g of b at a
SameBut(d1, d2, a, f, b, g) ==
    \A u \in Users, h \in Fields, v \in Ids :
        (~(u = a /\ h = f /\ v = b) /\ ~(u = b /\ h = g /\ v = a)) =>
            d2[u][h][v] = d1[u][h][v]

C16_Step(a, t) ==
    IF ~In(t, a, "friends")
    THEN /\ last'.err = "UserNotInGroup"
         /\ docs' = docs
    ELSE /\ last'.err = "ok"
         /\ ~InD(docs', t, a, "friends")
         /\ ~InD(docs', a, t, "friends")
         /\ SameBut(docs, docs', a, "friends", t, "friends")
         /\ (\A f \in Fields \ {"friends"} :
                ~In(t, a, f) /\ (t \in Users => ~In(a, t, f)))
            => NoEdge(docs', a, t)

\* C16 (as stated): remove_friend(actor, target) fails with UserNotInGroup
\* and writes nothing when target is not a friend of actor; otherwise it
\* removes both friendship edges, and when friendship was the only relation
\* of the two (send_request, respond_request(confirm), remove_friend) no
\* edge of any type remains between them.
C16_RemoveFriend ==
    [][last'.method = "delete_friend" => C16_Step(last'.self, last'.arg)]_vars

\* C16 (amended): the same for an actor that is not a bot; a bot is refused
\* with UnavailableForBots before the friends test.
C16_RemoveFriendByHuman ==
    [][(last'.method = "delete_friend" /\ last'.self \notin Bots)
          => C16_Step(last'.self, last'.arg)]_vars

\* a friendship ended by delete_friend with nothing left between the two
C16_Witness ==
    /\ last.method = "delete_friend" /\ last.err = "ok"
    /\ last.self # last.arg
    /\ last.arg \in registered
    /\ NoEdge(docs, last.self, last.arg)

C17_Step(a, t) ==
    IF ~In(t, a, "pendings_outgoing")
    THEN /\ last'.err = "UserNotInGroup"
         /\ docs' = docs
    ELSE /\ last'.err = "ok"
         /\ ~InD(docs', t, a, "pendings_outgoing")
         /\ ~InD(docs', a, t, "pendings_incoming")
         /\ \A u \in Users :
               /\ docs'[u]["friends"] = docs[u]["friends"]
               /\ docs'[u]["blocked"] = docs[u]["blocked"]

\* C17 (as stated): cancel_request(actor, target) fails with UserNotInGroup
\* and writes nothing when target is not in actor.pendings_outgoing;
\* otherwise target leaves actor.pendings_outgoing, actor leaves
\* target.pendings_incoming, and no friends or blocked array changes.
C17_CancelRequest ==
    [][last'.method = "cancel_friend_request"
          => C17_Step(last'.self, last'.arg)]_vars

\* C17 (amended): the same for an actor that is not a bot; a bot is refused
\* with UnavailableForBots before the pendings_outgoing test.
C17_CancelRequestByHuman ==
    [][(last'.method = "cancel_friend_request" /\ last'.self \notin Bots)
          => C17_Step(last'.self, last'.arg)]_vars

\* a request to another user withdrawn, nothing pending on either side
C17_Witness ==
    /\ last.method = "cancel_friend_request" /\ last.err = "ok"
    /\ last.self # last.arg
    /\ last.arg \in registered
    /\ ~In(last.arg, last.self, "pendings_outgoing")
    /\ ~In(last.self, last.arg, "pendings_incoming")

\* C20: a call of a relationship handler that raises InvalidUser,
\* UserNotInGroup or UnavailableForBots leaves every document as it was.
C20_FailedCallStep ==
    (last'.method \in OpNames /\ last'.err # "ok") =>
        /\ last'.err \in {"InvalidUser", "UserNotInGroup", "UnavailableForBots"}
        /\ docs' = docs
        /\ deleted' = deleted

C20_FailedCallWritesNothing == [][C20_FailedCallStep]_vars

\* a request refused because the two are friends already
C20_Witness ==
    /\ last.method = "send_friend_request" /\ last.err = "InvalidUser"
    /\ last.arg \in registered
    /\ In(last.arg, last.self, "friends")
    /\ In(last.self, last.arg, "friends")

\* C18: no id occurs more than once in any relation array of any user,
\* also when calls on the same pair of users overlap between their tests
\* and their write.
C18_ArraysAreSets ==
    \A u \in Users, f \in Fields, v \in Ids : docs[u][f][v] <= 1

\* the frames put on the wire of c since the running pass read the queue
SentInCycle(c) ==
    SubSeq(Transmitted(c), cycle_base[c] + 1, Len(Transmitted(c)))

\* what the running pass has yet to transmit: the message in flight and the
\* pops that are left of range(message_pool_length)
LeftInCycle(c) ==
    message[c] \o SubSeq(message_pool[c], 1, message_pool_length[c])

\* C19: while the loop runs, the frames sent in the running pass, followed by
\* the message in flight and the pops the pass has left, are exactly the
\* messages that were in the queue when the pass read its length; once the
\* pass sleeps it has sent exactly those.  A message enqueued during the pass
\* goes behind them without extending the pass, and the next pass takes the
\* whole queue, that message included.
C19_Snapshot ==
    \A c \in Conns :
        LoopRuns(c) =>
            /\ cycle_base[c] <= Len(Transmitted(c))
            /\ message_pool_length[c] <= Len(message_pool[c])
            /\ SentInCycle(c) \o StrSeq(LeftInCycle(c)) =
                   StrSeq(cycle_snapshot[c])

C19_EnqueueStep ==
    \A c \in Conns :
        (pc[c] = "send" /\ enqueued'[c] # enqueued[c]) =>
            /\ LeftInCycle(c)' = LeftInCycle(c)
            /\ SentInCycle(c)' = SentInCycle(c)
            /\ pc'[c] = "send"
            /\ \E m \in Messages :
                   message_pool'[c] = Append(message_pool[c], m)

C19_NextPassStep ==
    \A c \in Conns :
        (pc[c] = "sleep" /\ pc'[c] = "send") =>
            /\ cycle_snapshot'[c] = message_pool[c]
            /\ LeftInCycle(c)' = message_pool[c]
            /\ SentInCycle(c)' = <<>>

C19_CycleSendsItsSnapshot ==
    /\ []C19_Snapshot
    /\ [][C19_EnqueueStep /\ C19_NextPassStep]_vars

\* a pass that began with two messages is sending the second one while a
\* third, enqueued during the pass, waits in the queue
C19_Witness ==
    \E c \in Conns :
        /\ pc[c] = "send"
        /\ Len(cycle_snapshot[c]) = 2
        /\ Len(SentInCycle(c)) = 1
        /\ message_pool_length[c] = 0
        /\ Len(message_pool[c]) = 1

\* C21: on every connection, at every moment, the messages enqueued are the
\* frames transmitted, followed by the popped message whose send is in
\* progress, followed by the queue: no message is neither in the queue nor
\* on the wire nor on its way to the wire, also after a cancellation that
\* arrives during a send.
C21_NoMessageLost ==
    \A c \in Conns :
        StrSeq(enqueued[c]) =
            Transmitted(c) \o StrSeq(message[c]) \o StrSeq(message_pool[c])

\* C22: no user is ever a member of one of their own relation arrays, and
\* send_friend_request(A, A) and block_user(A, A) fail and write nothing.
C22_NoSelfEdgeInv ==
    \A u \in Users, f \in Fields : docs[u][f][u] = 0

C22_SelfCallStep ==
    (/\ last'.method \in {"send_friend_request", "block_user"}
     /\ last'.self = last'.arg) =>
        /\ last'.err # "ok"
        /\ docs' = docs

C22_NoSelfEdge == []C22_NoSelfEdgeInv /\ [][C22_SelfCallStep]_vars

====
